---- MODULE Spec2Model ----
(***************************************************************************)
(* The three weather servers of the repository as one state machine.       *)
(*                                                                         *)
(*   minimal  src/minimal_weather_server.py  MCPWeatherServer + main       *)
(*   simple   src/simple_weather_server.py   SimpleMCPServer  + main       *)
(*   sdk      src/weather_server.py          list_tools / call_tool        *)
(*                                                                         *)
(* A run is one process of one variant: it reads lines from its input      *)
(* stream, handles each and writes response lines to its output stream.    *)
(* JSON values are kept as their JSON text ("7", "null", "\"a\""); a       *)
(* member that is missing from an object is Absent.  The leading emoji of  *)
(* the collaborator's report strings are left out of the string literals.  *)
(***************************************************************************)
EXTENDS Integers, Sequences, FiniteSets, TLC

VARIABLES
    variant,      \* which server this process is
    apiKey,       \* whether OPENWEATHER_API_KEY is set in the environment
    server_info,  \* MCPWeatherServer.server_info (minimal)
    name,         \* SimpleMCPServer.name (simple)
    tools,        \* SimpleMCPServer.tools (simple): the registry
    pc,           \* position of main's loop
    input,        \* the lines read from the input stream so far
    cur,          \* the line being handled
    pending,      \* <<>> or <<envelope>>: the response about to be written
    fetched,      \* the collaborator calls made for cur
    output,       \* the lines written so far, each with the number of its line
    cause,        \* why the loop ended
    forecast      \* one call of get_weather_forecast: what it was given, and
                  \* the day sections of its report

vars == <<variant, apiKey, server_info, name, tools, pc, input, cur, pending,
          fetched, output, cause, forecast>>

-----------------------------------------------------------------------------
(* Bounds *)

\* Number of input lines one run reads before the stream ends.
MaxLines == 2

\* Number of add_tool calls made on one SimpleMCPServer before it serves.
MaxTools == 2

\* Length of the upstream forecast lists whose dates come in any order, and
\* the number of dates of the longest list in order of time.
MaxEntries == 3
MaxDates == 6

-----------------------------------------------------------------------------
(* JSON values and input lines *)

Absent == "<absent>"
Null == "null"

\* Values of the id member: JSON null, the integers 0 and 7, the string "a".
IdVals == {"0", "7", "\"a\""}
Ids == {Absent, Null} \cup IdVals

\* A value stands for a mapping (a JSON object) or for something that is not
\* one; the representative non-mapping is the JSON array [1].
Mapping == "mapping"
NonMapping == "nonmapping"

Methods == {"initialize", "notifications/initialized", "tools/list", "tools/call"}
UnknownMethod == "foo/bar"

ToolNames == {"get_weather", "get_weather_forecast", "get_current_weather",
              "__nonexistent__"}

NoLine == [kind |-> "none", id |-> Absent, method |-> Absent, params |-> Absent,
           name |-> Absent, arguments |-> Absent, location |-> Absent,
           days |-> <<>>]

\* A line that is not a JSON object: blank (only whitespace), text (not JSON),
\* deep (JSON nested beyond the decoder's recursion limit), and the JSON
\* values array, number, string, bool, null.
Raw(k) == [NoLine EXCEPT !.kind = k]

NonObjectKinds == {"array", "number", "string", "bool", "null"}
\* The input streams hold three of the five: they differ in the type name
\* of the error text only.
RawLines == {Raw(k) : k \in {"blank", "text", "deep", "array", "number", "null"}}

\* A JSON object whose params member is absent or not a mapping.
Obj(i, m, p) == [NoLine EXCEPT !.kind = "object", !.id = i, !.method = m,
                               !.params = p]

\* A JSON object with params a mapping: params.name, params.arguments (absent,
\* not a mapping, or a mapping) and arguments.location.
Call(i, m, n, a, l) == [kind |-> "object", id |-> i, method |-> m,
                        params |-> Mapping, name |-> n, arguments |-> a,
                        location |-> l, days |-> <<>>]

\* A tools/call of get_weather_forecast whose arguments hold days: the member
\* is <<>> when missing and <<d>> when it is the integer d.
Forecast(i, l, d) ==
    [Call(i, "tools/call", "get_weather_forecast", Mapping, l) EXCEPT !.days = <<d>>]

\* Requests and notifications of every method but tools/call: with and
\* without an id for each method, the ids null, 0 and "a", and a params
\* member that is not a mapping.
PlainLines ==
    {Obj(i, m, Absent) : i \in {Absent, "7"},
                         m \in (Methods \ {"tools/call"}) \cup {Absent, UnknownMethod}}
    \cup {Obj(Null, "tools/list", Absent), Obj("\"a\"", Absent, Absent)}
    \cup {Obj("0", m, Absent) : m \in {"initialize", UnknownMethod}}
    \cup {Obj("7", m, NonMapping) : m \in {"initialize", "notifications/initialized"}}

\* params of a tools/call: <<name, arguments, location>>.
CallShapes ==
    {<<n, Absent, Absent>> : n \in {Absent, "__nonexistent__", "get_weather",
                                    "get_weather_forecast"}}
    \cup {<<"get_weather", NonMapping, Absent>>}
    \cup {<<"get_weather", Mapping, l>> : l \in {Absent, "London"}}
    \cup {<<"get_weather_forecast", Mapping, "London">>}

CallLines ==
    {Call("7", "tools/call", s[1], s[2], s[3]) : s \in CallShapes}
    \cup {Call(i, "tools/call", "get_weather", Mapping, Absent) : i \in {Absent, Null}}
    \cup {Call(Absent, "tools/call", "__nonexistent__", Mapping, Absent)}
    \cup {Obj(i, "tools/call", p) : i \in {Absent, "7"}, p \in {Absent, NonMapping}}
    \cup {Forecast("7", "London", d) : d \in {0, 9}}

Lines == RawLines \cup PlainLines \cup CallLines

\* Python's str() of a member read with dict.get: a missing member is None.
PyStr(v) == IF v = Absent THEN "None" ELSE v

\* Python's type name of a parsed JSON value that is not an object.
PyTypeName(k) ==
    CASE k = "array" -> "list"
      [] k = "number" -> "int"
      [] k = "string" -> "str"
      [] k = "bool" -> "bool"
      [] k = "null" -> "NoneType"
      [] OTHER -> "dict"

\* str() of the AttributeError raised by calling .get on such a value.
AttrError(t) == "'" \o t \o "' object has no attribute 'get'"

-----------------------------------------------------------------------------
(* Envelopes *)

Success(i, r) == [jsonrpc |-> "2.0", id |-> i, result |-> r]

\* An error envelope that carries a null result beside its error.
ErrorWithResult(i, c, m) == [jsonrpc |-> "2.0", id |-> i, result |-> Null,
                             error |-> [code |-> c, message |-> m]]

Error(i, c, m) == [jsonrpc |-> "2.0", id |-> i,
                   error |-> [code |-> c, message |-> m]]

IsSuccess(e) == "result" \in DOMAIN e
IsError(e) == "error" \in DOMAIN e

\* A content list that holds the text item twice.
TextContentTwice(s) == [content |-> <<[type |-> "text", text |-> s],
                                      [type |-> "text", text |-> s]>>]

TextContent(s) == [content |-> <<[type |-> "text", text |-> s]>>]

\* An acknowledgement: a success envelope with an empty result.
Acknowledged == <<Success(Null, <<>>)>>

\* "return None": the handler has no response, and the loop writes nothing.
NoResponse == <<>>

\* A handler that makes each of its collaborator calls a second time.
ReturnRetried(resp, f) == [exc |-> "", resp |-> resp, fetched |-> f \o f]

\* What a handler hands back: a response (<<>> is None), or an exception
\* (exc is its str(), "" when nothing was raised), and the outcomes of the
\* collaborator calls it made.
Return(resp, f) == [exc |-> "", resp |-> resp, fetched |-> f]
Raise(e) == [exc |-> e, resp |-> <<>>, fetched |-> <<>>]

-----------------------------------------------------------------------------
(* The weather collaborator *)

\* What the upstream service does with one outbound GET.
Upstream == {"ok", "status", "notfound", "http", "network"}

\* The outcome of one collaborator call, in the order the code tests: the
\* credential, the location, then the request.
FetchOutcome(key, location, up) ==
    IF ~key THEN "nokey"
    ELSE IF location = "" THEN "nolocation"
    ELSE up

\* One call of the collaborator: the tool method called, the arguments it was
\* given, the outcome of its request and the string it returned.
CollaboratorCall(tool, args, outcome, returned) ==
    [tool |-> tool, args |-> args, outcome |-> outcome, returned |-> returned]

FetchFailed(o) == o.outcome # "ok"

\* The calendar dates in the upstream forecast reply.
ForecastDates == 5

\* len(list(daily_forecasts.items())[:days])
Shown(days) ==
    IF days >= 0
    THEN (IF days < ForecastDates THEN days ELSE ForecastDates)
    ELSE (IF ForecastDates + days > 0 THEN ForecastDates + days ELSE 0)

\* MCPWeatherServer.get_weather: it returns a string on every path.
MinimalGetWeather(key, location, up) ==
    IF ~key THEN "Error: OPENWEATHER_API_KEY environment variable not set"
    ELSE IF location = "" THEN "Error: No location provided"
    ELSE CASE up = "ok" -> "Weather Report for " \o location
           [] up = "status" -> "Error: Weather API returned status 204"
           [] up = "notfound" -> "Error: Location '" \o location \o "' not found"
           [] up = "http" -> "Error: HTTP 500 - Internal Server Error"
           [] OTHER -> "Error: <urlopen error>"

\* The dates of forecast_data["list"], one per entry, are numbered 1, 2, ...
\* daily_forecasts after the grouping loop: its keys, in the order the dict
\* got them, that is by first appearance.
RECURSIVE Grouped(_, _)
Grouped(items, keys) ==
    IF items = <<>> THEN keys
    ELSE Grouped(Tail(items),
                 IF \E i \in 1..Len(keys) : keys[i] = Head(items)
                 THEN keys
                 ELSE Append(keys, Head(items)))

DailyForecasts(reply) == Grouped(reply, <<>>)

\* Python's s[:n]: the first n elements, all of s when n is larger than its
\* length, and all but the last -n elements when n is negative.
Slice(s, n) ==
    IF n >= 0
    THEN SubSeq(s, 1, IF n < Len(s) THEN n ELSE Len(s))
    ELSE SubSeq(s, 1, IF Len(s) + n > 0 THEN Len(s) + n ELSE 0)

\* The dates of the day sections get_weather_forecast writes, in order.
DaySections(reply, days) == Slice(DailyForecasts(reply), days)

\* No forecast call is looked at.
NoForecast == [days |-> 0, reply |-> <<>>, report |-> <<>>]

\* MCPWeatherServer.get_weather_forecast: the same paths, and a report of the
\* first days dates of the reply.
MinimalGetWeatherForecast(key, location, days, up) ==
    IF ~key THEN "Error: OPENWEATHER_API_KEY environment variable not set"
    ELSE IF location = "" THEN "Error: No location provided"
    ELSE CASE up = "ok" -> "5-Day Weather Forecast for " \o location \o ": "
                           \o ToString(Shown(days)) \o " days"
           [] up = "status" -> "Error: Weather API returned status 204"
           [] up = "notfound" -> "Error: Location '" \o location \o "' not found"
           [] up = "http" -> "Error: HTTP 500 - Internal Server Error"
           [] OTHER -> "Error: <urlopen error>"

\* str(e) of the JSONDecodeError json.loads raises on a text that is no JSON
\* value from its first character on, the empty text included.
JsonDecodeDetail == "Expecting value: line 1 column 1 (char 0)"

\* get_weather of the simple server: the status is not tested. urlopen does
\* not raise on the 204 reply, json.loads raises on its empty body, and every
\* exception of the try block is reported the same way.
SimpleGetWeather(key, location, up) ==
    IF ~key THEN "Error: OPENWEATHER_API_KEY not set"
    ELSE IF location = "" THEN "Error: Location not provided"
    ELSE CASE up = "ok" -> "Weather in " \o location
           [] up = "status" -> "Error getting weather for " \o location \o ": " \o JsonDecodeDetail
           [] up = "notfound" -> "Error getting weather for " \o location \o ": HTTP Error 404: Not Found"
           [] up = "http" -> "Error getting weather for " \o location \o ": HTTP Error 500: Internal Server Error"
           [] OTHER -> "Error getting weather for " \o location \o ": <urlopen error>"

\* The outcome of one call of the simple server's get_weather: the 204 reply
\* fails there too, at the decoding of its body.
SimpleFetchOutcome(key, location, up) ==
    IF ~key THEN "nokey"
    ELSE IF location = "" THEN "nolocation"
    ELSE up

-----------------------------------------------------------------------------
(* The minimal server: MCPWeatherServer *)

\* MCPWeatherServer.__init__
MinimalServerInfo == [name |-> "weather-server", version |-> "1.0.0"]

\* The descriptors process_request lists for tools/list, in its order.  An
\* inputSchema is kept as its type, the names of its properties and the
\* required names.
MinimalTools ==
    << [name |-> "get_weather",
        description |-> "Get current weather for a location",
        inputSchema |-> [type |-> "object", properties |-> {"location"},
                         required |-> <<"location">>]],
       [name |-> "get_weather_forecast",
        description |-> "Get 5-day weather forecast for a location",
        inputSchema |-> [type |-> "object", properties |-> {"location", "days"},
                         required |-> <<"location">>]] >>

\* data.get("id"): None, written as JSON null, when the member is missing.
MinimalRequestId(data) == IF data.id = Absent THEN Null ELSE data.id

\* arguments.get("location", ""), for arguments that are a mapping or the
\* default {}.
LocationOf(data) == IF data.location = Absent THEN "" ELSE data.location

\* A days argument forced into the schema's range 1..5.
DaysOfClamped(data) ==
    IF data.days = <<>> THEN 5
    ELSE IF data.days[1] < 1 THEN 1
    ELSE IF data.days[1] > 5 THEN 5
    ELSE data.days[1]

\* arguments.get("days", 5)
DaysOf(data) == IF data.days = <<>> THEN 5 ELSE data.days[1]

\* An initialize result that advertises no capability.
InitializeResultNoTools(info) ==
    [protocolVersion |-> "2024-11-05", capabilities |-> <<>>,
     serverInfo |-> info]

\* The result of the initialize branch; capabilities.tools is the empty
\* object.
InitializeResult(info) ==
    [protocolVersion |-> "2024-11-05", capabilities |-> [tools |-> <<>>],
     serverInfo |-> info]

\* The tools/call branch of process_request.  params.get raises outside any
\* try when params is not a mapping; arguments.get raises inside the tool's
\* try when arguments is not a mapping.
MinimalToolsCall(data, info, key, up) ==
    LET request_id == MinimalRequestId(data)
        tool_name == data.name
        location == LocationOf(data)
        days == DaysOf(data)
        weather_data == MinimalGetWeather(key, location, up)
        forecast_data == MinimalGetWeatherForecast(key, location, days, up)
    IN  IF data.params = NonMapping THEN Raise(AttrError("list"))
        ELSE IF tool_name = "get_weather" THEN
            IF data.arguments = NonMapping
            THEN Return(<<Error(request_id, -32603,
                                "Weather API error: " \o AttrError("list"))>>, <<>>)
            ELSE Return(<<Success(request_id, TextContent(weather_data))>>,
                        <<CollaboratorCall("get_weather", [location |-> location],
                                           FetchOutcome(key, location, up),
                                           weather_data)>>)
        ELSE IF tool_name = "get_weather_forecast" THEN
            IF data.arguments = NonMapping
            THEN Return(<<Error(request_id, -32603,
                                "Forecast API error: " \o AttrError("list"))>>, <<>>)
            ELSE Return(<<Success(request_id, TextContent(forecast_data))>>,
                        <<CollaboratorCall("get_weather_forecast",
                                           [location |-> location, days |-> days],
                                           FetchOutcome(key, location, up),
                                           forecast_data)>>)
        ELSE Return(<<Error(request_id, -32601,
                            "Unknown tool: " \o PyStr(tool_name))>>, <<>>)

\* A tools/list handler that lists only its first descriptor.
MinimalToolsListFirstOnly(request_id) ==
    Success(request_id, [tools |-> SubSeq(MinimalTools, 1, 1)])

\* A tools/list handler that answers only once an initialize has been read.
MinimalToolsListAfterInitialize(request_id) ==
    IF \E i \in 1..Len(input) : input[i].method = "initialize"
    THEN Success(request_id, [tools |-> MinimalTools])
    ELSE Error(request_id, -32002, "Server not initialized")

\* The tools/list branch of process_request.
MinimalToolsList(request_id) == Success(request_id, [tools |-> MinimalTools])

\* MCPWeatherServer.process_request on a parsed JSON object.
MinimalProcessRequest(data, info, key, up) ==
    LET method == data.method
        request_id == MinimalRequestId(data)
    IN  IF method = "initialize"
        THEN Return(<<Success(request_id, InitializeResult(info))>>, <<>>)
        ELSE IF method = "notifications/initialized"
        THEN Return(NoResponse, <<>>)
        ELSE IF method = "tools/list"
        THEN Return(<<MinimalToolsList(request_id)>>, <<>>)
        ELSE IF method = "tools/call"
        THEN MinimalToolsCall(data, info, key, up)
        ELSE Return(<<Error(request_id, -32601,
                            "Unknown method: " \o PyStr(method))>>, <<>>)

\* A parse error reported with the code of an invalid request.
ParseErrorInvalidRequest == Error(Null, -32600, "Parse error")

\* The envelope of handle_message's "except json.JSONDecodeError".
ParseError == Error(Null, -32700, "Parse error")

\* MCPWeatherServer.handle_message on one line.  json.loads raises
\* JSONDecodeError on blank and on non-JSON text, and RecursionError on JSON
\* nested too deeply.  The handler of "except Exception" evaluates
\* data.get("id"): data is unbound when json.loads raised, and has no get when
\* the line is not a JSON object, so a second exception leaves handle_message.
MinimalHandleMessage(line, info, key, up) ==
    IF line.kind \in {"blank", "text"} THEN Return(<<ParseError>>, <<>>)
    ELSE IF line.kind = "deep"
    THEN Raise("cannot access local variable 'data' where it is not associated with a value")
    ELSE IF line.kind \in NonObjectKinds
    THEN Raise(AttrError(PyTypeName(line.kind)))
    ELSE LET r == MinimalProcessRequest(line, info, key, up)
         IN  IF r.exc # ""
             THEN Return(<<Error(MinimalRequestId(line), -32603,
                                 "Internal error: " \o r.exc)>>, <<>>)
             ELSE r

-----------------------------------------------------------------------------
(* The simple server: SimpleMCPServer *)

\* SimpleMCPServer.add_tool: appends, whatever the registry holds.
AddTool(registry, n, description, schema) ==
    Append(registry, [name |-> n, description |-> description,
                      inputSchema |-> schema])

\* The registry main builds: SimpleMCPServer("simple-weather-server") and one
\* add_tool.
SimpleName == "simple-weather-server"
SimpleTools ==
    AddTool(<<>>, "get_weather", "Get current weather for a location",
            [type |-> "object", properties |-> {"location"},
             required |-> <<"location">>])

\* A default id that counts the lines written so far.
SimpleRequestIdCounted(request) ==
    IF request.id \in {Absent, Null} THEN ToString(Len(output) + 1)
    ELSE request.id

\* An id test on truthiness: 0 is replaced by 1 as well.
SimpleRequestIdFalsy(request) ==
    IF request.id \in {Absent, Null, "0"} THEN "1" ELSE request.id

\* request.get("id", 1), then None replaced by 1.
SimpleRequestId(request) ==
    IF request.id = Absent THEN "1"
    ELSE IF request.id = Null THEN "1"
    ELSE request.id

\* The tools/call branch of handle_request.  params.get is outside the try.
SimpleToolsCall(request, key, up) ==
    LET request_id == SimpleRequestId(request)
        tool_name == request.name
        location == LocationOf(request)
        result == SimpleGetWeather(key, location, up)
    IN  IF request.params = NonMapping THEN Raise(AttrError("list"))
        ELSE IF tool_name = "get_weather" THEN
            IF request.arguments = NonMapping
            THEN Return(<<Error(request_id, -32603,
                                "Tool execution error: " \o AttrError("list"))>>, <<>>)
            ELSE Return(<<Success(request_id, TextContent(result))>>,
                        <<CollaboratorCall("get_weather", [location |-> location],
                                           SimpleFetchOutcome(key, location, up),
                                           result)>>)
        ELSE Return(<<Error(request_id, -32601,
                            "Unknown tool: " \o PyStr(tool_name))>>, <<>>)

\* SimpleMCPServer.handle_request on a parsed JSON value.
SimpleHandleRequest(request, nm, registry, key, up) ==
    IF request.kind \in NonObjectKinds
    THEN Raise(AttrError(PyTypeName(request.kind)))
    ELSE
    LET method == request.method
        request_id == SimpleRequestId(request)
    IN  IF method = "initialize"
        THEN Return(<<Success(request_id,
                              InitializeResult([name |-> nm, version |-> "1.0.0"]))>>, <<>>)
        ELSE IF method = "notifications/initialized"
        THEN Return(NoResponse, <<>>)
        ELSE IF method = "tools/list"
        THEN Return(<<Success(request_id, [tools |-> registry])>>, <<>>)
        ELSE IF method = "tools/call"
        THEN SimpleToolsCall(request, key, up)
        ELSE Return(<<Error(request_id, -32601,
                            "Unknown method: " \o PyStr(method))>>, <<>>)

\* One pass of the body of main's loop after the blank test: json.loads,
\* handle_request, and the two except clauses of the inner try.
SimpleHandleLine(line, nm, registry, key, up) ==
    IF line.kind \in {"blank", "text"}
    THEN Return(<<Error(Null, -32700, "Parse error: " \o JsonDecodeDetail)>>, <<>>)
    ELSE IF line.kind = "deep"
    THEN Return(<<Error(Null, -32603,
                        "Internal error: maximum recursion depth exceeded while decoding a JSON array from a unicode string")>>, <<>>)
    ELSE LET r == SimpleHandleRequest(line, nm, registry, key, up)
         IN  IF r.exc # ""
             THEN Return(<<Error(Null, -32603, "Internal error: " \o r.exc)>>, <<>>)
             ELSE r

-----------------------------------------------------------------------------
(* The SDK server: weather_server.py *)

\* list_tools
SdkTools ==
    << [name |-> "get_current_weather",
        description |-> "Get current weather for a specific location",
        inputSchema |-> [type |-> "object", properties |-> {"location", "units"},
                         required |-> <<"location">>]],
       [name |-> "get_weather_forecast",
        description |-> "Get 5-day weather forecast for a specific location",
        inputSchema |-> [type |-> "object", properties |-> {"location", "units"},
                         required |-> <<"location">>]] >>

\* The status code the upstream service answers with.
StatusCode(up) ==
    CASE up = "status" -> "204"
      [] up = "notfound" -> "404"
      [] OTHER -> "500"

\* call_tool: the text of the one TextContent it returns.  It returns on
\* every path; arguments["location"] raises KeyError inside the try, and so
\* does a request that fails in the HTTP client.
SdkCallTool(request, key, up) ==
    LET nm == request.name
        known == nm \in {"get_current_weather", "get_weather_forecast"}
    IN  IF ~key THEN "Error: OpenWeatherMap API key not configured. Please set OPENWEATHER_API_KEY environment variable."
        ELSE IF known /\ request.location = Absent
        THEN "Error calling tool '" \o nm \o "': 'location'"
        ELSE IF known /\ up = "ok"
        THEN (IF nm = "get_current_weather" THEN "Current Weather for "
              ELSE "5-Day Weather Forecast for ") \o request.location
        ELSE IF known /\ up = "network"
        THEN "Error calling tool '" \o nm \o "': connection failed"
        ELSE IF known
        THEN (IF nm = "get_current_weather" THEN "Error: Could not get weather for "
              ELSE "Error: Could not get forecast for ")
             \o request.location \o ". Status: " \o StatusCode(up)
        ELSE "Error: Unknown tool '" \o nm \o "'"

\* The requests the SDK hands to call_tool: an id, a name, and arguments that
\* are a mapping (the default is the empty mapping).
SdkLines ==
    {Call(i, "tools/call", n, Mapping, l) :
        i \in {"7"}, n \in ToolNames, l \in {Absent, "London"}}

\* The @app.call_tool() registration: what call_tool returns is the content
\* of the result sent back for the request.
SdkResponse(request, key, up) ==
    Success(request.id, TextContent(SdkCallTool(request, key, up)))

-----------------------------------------------------------------------------
(* The transport loops *)

NoInfo == [name |-> "", version |-> ""]

\* An output line: the envelope, the number of the input line that caused it
\* and the outcomes of the collaborator calls made for it.
Entry(n, env, f) == [src |-> n, env |-> env, fetched |-> f]

\* A write that puts the line before the lines already written.
EmitFirst(out, e) == <<e>> \o out

\* print(response, flush=True): the line goes to the end of the output.
Emit(out, e) == Append(out, e)

Init ==
    /\ variant \in {"minimal", "simple", "sdk"}
    /\ apiKey \in BOOLEAN
    /\ server_info = IF variant = "minimal" THEN MinimalServerInfo ELSE NoInfo
    /\ name = IF variant = "simple" THEN SimpleName ELSE ""
    /\ tools = IF variant = "simple" THEN SimpleTools ELSE <<>>
    /\ pc = "read"
    /\ input = <<>>
    /\ cur = NoLine
    /\ pending = <<>>
    /\ fetched = <<>>
    /\ output = <<>>
    /\ cause = ""
    /\ forecast = NoForecast

Fields == <<variant, apiKey, server_info, name, tools>>

\* What the loops leave alone: the fields, and the forecast call looked at
\* on its own.
Fixed == <<Fields, forecast>>

\* The loop ends: break, or an exception that leaves main.
Stop(why) ==
    /\ pc' = "done"
    /\ cause' = why
    /\ cur' = NoLine
    /\ pending' = <<>>
    /\ fetched' = <<>>

\* main of the minimal server: sys.stdin.readline(), and break at EOF.
MinimalRead ==
    /\ variant = "minimal"
    /\ pc = "read"
    /\ \/ /\ Stop("eof")
          /\ UNCHANGED <<input, output>>
       \/ /\ Len(input) < MaxLines
          /\ \E line \in Lines :
                /\ cur' = line
                /\ input' = Append(input, line)
                /\ pc' = "handle"
                /\ UNCHANGED <<pending, fetched, output, cause>>
    /\ UNCHANGED Fixed

\* response = await server.handle_message(line).  An exception that leaves
\* handle_message is caught by main's "except Exception".
MinimalHandle ==
    /\ variant = "minimal"
    /\ pc = "handle"
    /\ \E up \in Upstream :
          LET r == MinimalHandleMessage(cur, server_info, apiKey, up)
          IN  IF r.exc # ""
              THEN /\ pc' = "except"
                   /\ pending' = <<Error(Null, -32603, "Server error: " \o r.exc)>>
                   /\ fetched' = <<>>
                   /\ cur' = cur
              ELSE /\ pc' = IF Len(r.resp) = 0 THEN "read" ELSE "write"
                   /\ pending' = r.resp
                   /\ fetched' = IF Len(r.resp) = 0 THEN <<>> ELSE r.fetched
                   /\ cur' = IF Len(r.resp) = 0 THEN NoLine ELSE cur
    /\ UNCHANGED <<Fixed, input, output, cause>>

\* if response: print(response, flush=True).  The print writes the line, or
\* fails on a broken output stream: that raises into "except Exception",
\* whose own print fails too and leaves main.
MinimalWrite ==
    /\ variant = "minimal"
    /\ pc = "write"
    /\ \/ /\ output' = Emit(output, Entry(Len(input), pending[1], fetched))
          /\ pc' = "read"
          /\ cur' = NoLine
          /\ pending' = <<>>
          /\ fetched' = <<>>
          /\ UNCHANGED cause
       \/ /\ Stop("pipe")
          /\ UNCHANGED output
    /\ UNCHANGED <<Fixed, input>>

\* An exception handler inside the loop: the line is written and the loop
\* goes on to read.
MinimalServerErrorContinues ==
    /\ variant = "minimal"
    /\ pc = "except"
    /\ \/ /\ output' = Emit(output, Entry(Len(input), pending[1], fetched))
          /\ pc' = "read"
          /\ cur' = NoLine
          /\ pending' = <<>>
          /\ fetched' = <<>>
          /\ UNCHANGED cause
       \/ /\ Stop("pipe")
          /\ UNCHANGED output
    /\ UNCHANGED <<Fixed, input>>

\* main's "except Exception": one "Server error" line, and the loop is left.
MinimalServerError ==
    /\ variant = "minimal"
    /\ pc = "except"
    /\ \/ /\ output' = Emit(output, Entry(Len(input), pending[1], fetched))
          /\ Stop("exception")
       \/ /\ Stop("pipe")
          /\ UNCHANGED output
    /\ UNCHANGED <<Fixed, input>>

\* main of the simple server: readline, break at EOF, strip, and continue on
\* a line that is empty after the strip.  The stream holds lines of S.
SimpleReadFrom(S) ==
    /\ variant = "simple"
    /\ pc = "read"
    /\ \/ /\ Stop("eof")
          /\ UNCHANGED <<input, output>>
       \/ /\ Len(input) < MaxLines
          /\ \E line \in S :
                /\ input' = Append(input, line)
                /\ IF line.kind = "blank"
                   THEN UNCHANGED <<pc, cur>>
                   ELSE pc' = "handle" /\ cur' = line
                /\ UNCHANGED <<pending, fetched, output, cause>>
    /\ UNCHANGED Fixed

SimpleRead == SimpleReadFrom(Lines)

\* json.loads and handle_request inside the inner try, with its handlers.
SimpleHandle ==
    /\ variant = "simple"
    /\ pc = "handle"
    /\ \E up \in Upstream :
          LET r == SimpleHandleLine(cur, name, tools, apiKey, up)
          IN  /\ pc' = IF Len(r.resp) = 0 THEN "read" ELSE "write"
              /\ pending' = r.resp
              /\ fetched' = IF Len(r.resp) = 0 THEN <<>> ELSE r.fetched
              /\ cur' = IF Len(r.resp) = 0 THEN NoLine ELSE cur
    /\ UNCHANGED <<Fixed, input, output, cause>>

\* print(json.dumps(response), flush=True).  The print writes the line, or
\* fails on a broken output stream: that raises into the inner handlers,
\* whose own print fails too and leaves the loop.
SimpleWrite ==
    /\ variant = "simple"
    /\ pc = "write"
    /\ \/ /\ output' = Emit(output, Entry(Len(input), pending[1], fetched))
          /\ pc' = "read"
          /\ cur' = NoLine
          /\ pending' = <<>>
          /\ fetched' = <<>>
          /\ UNCHANGED cause
       \/ /\ Stop("pipe")
          /\ UNCHANGED output
    /\ UNCHANGED <<Fixed, input>>

\* "except KeyboardInterrupt: pass" of both mains.  The try it belongs to
\* starts after the server is built and its tools are added.
Interrupt ==
    /\ variant \in {"minimal", "simple"}
    /\ pc \notin {"setup", "done"}
    /\ Stop("interrupt")
    /\ UNCHANGED <<Fixed, input, output>>

\* call_tool reaches one of its two awaits (the HTTP request of the tool)
\* when the key is set, the name is one of the two tools and the arguments
\* have a location; on every other path it returns without suspending.
SdkAwaits(request, key) ==
    /\ key
    /\ request.name \in {"get_current_weather", "get_weather_forecast"}
    /\ request.location # Absent

\* The requests call_tool is suspended on: read, and not answered yet.
InFlight ==
    {n \in 1..Len(input) : \A k \in 1..Len(output) : output[k].src # n}

\* One tools/call request handed to call_tool, run to its return or to its
\* await: the event loop is free to start another request while this one
\* waits for the upstream service.
SdkRequest ==
    /\ variant = "sdk"
    /\ pc = "read"
    /\ Len(input) < MaxLines
    /\ \E line \in SdkLines :
          /\ input' = Append(input, line)
          /\ output' = IF SdkAwaits(line, apiKey)
                       THEN output
                       ELSE Emit(output, Entry(Len(input) + 1,
                                               SdkResponse(line, apiKey, "ok"), <<>>))
    /\ UNCHANGED <<Fixed, pc, cur, pending, fetched, cause>>

\* The upstream service answers (or fails) one of the suspended requests,
\* whichever it is: call_tool resumes, returns, and the result is sent.
SdkResume ==
    /\ variant = "sdk"
    /\ pc = "read"
    /\ \E n \in InFlight, up \in Upstream :
          output' = Emit(output, Entry(n, SdkResponse(input[n], apiKey, up), <<>>))
    /\ UNCHANGED <<Fixed, pc, input, cur, pending, fetched, cause>>

Next ==
    \/ MinimalRead
    \/ MinimalHandle
    \/ MinimalWrite
    \/ MinimalServerError
    \/ SimpleRead
    \/ SimpleHandle
    \/ SimpleWrite
    \/ Interrupt
    \/ SdkRequest
    \/ SdkResume

Spec == Init /\ [][Next]_vars

-----------------------------------------------------------------------------
(* A SimpleMCPServer set up through its own interface *)

\* The names given to add_tool, and the lines the server is then sent.
RegistryNames == {"get_weather", "get_time"}

RegistryLines ==
    {Obj("7", "tools/list", Absent), Obj("7", "initialize", Absent),
     Call("7", "tools/call", "get_weather", Mapping, "London"),
     Call("7", "tools/call", "get_time", Mapping, Absent)}

\* server = SimpleMCPServer(name): self.tools = []
RegistryInit ==
    /\ variant = "simple"
    /\ apiKey \in BOOLEAN
    /\ server_info = NoInfo
    /\ name = SimpleName
    /\ tools = <<>>
    /\ pc = "setup"
    /\ input = <<>>
    /\ cur = NoLine
    /\ pending = <<>>
    /\ fetched = <<>>
    /\ output = <<>>
    /\ cause = ""
    /\ forecast = NoForecast

\* server.add_tool(name, description, input_schema), with any of the names.
RegistryAddTool ==
    /\ pc = "setup"
    /\ Len(tools) < MaxTools
    /\ \E n \in RegistryNames :
          tools' = AddTool(tools, n, "Tool " \o n,
                           [type |-> "object", properties |-> {"location"},
                            required |-> <<"location">>])
    /\ UNCHANGED <<variant, apiKey, server_info, name, pc, input, cur, pending,
                   fetched, output, cause, forecast>>

\* The setup is over and the loop of main starts.
RegistryStart ==
    /\ pc = "setup"
    /\ pc' = "read"
    /\ UNCHANGED <<Fixed, input, cur, pending, fetched, output, cause>>

RegistryRead == SimpleReadFrom(RegistryLines)

RegistryNext ==
    \/ RegistryAddTool
    \/ RegistryStart
    \/ RegistryRead
    \/ SimpleHandle
    \/ SimpleWrite
    \/ Interrupt

SpecRegistry == RegistryInit /\ [][RegistryNext]_vars

-----------------------------------------------------------------------------
(* One call of MCPWeatherServer.get_weather_forecast *)

\* The values of days the engine passes through, and the upstream lists: every
\* list of up to MaxEntries entries over three dates, and the lists of 1 to
\* MaxDates dates in order of time.
DaysValues == -2..7
Replies ==
    UNION {[1..n -> 1..3] : n \in 0..MaxEntries}
    \cup {[i \in 1..n |-> i] : n \in 1..MaxDates}

\* The minimal server with its credential set, about to make the call.
ForecastInit ==
    /\ variant = "minimal"
    /\ apiKey = TRUE
    /\ server_info = MinimalServerInfo
    /\ name = ""
    /\ tools = <<>>
    /\ pc = "forecast"
    /\ input = <<>>
    /\ cur = NoLine
    /\ pending = <<>>
    /\ fetched = <<>>
    /\ output = <<>>
    /\ cause = ""
    /\ \E d \in DaysValues, r \in Replies :
          forecast = [days |-> d, reply |-> r, report |-> <<>>]

\* get_weather_forecast(location, days) on a reply with status 200: the
\* grouping loop, the slice and one section per date left.
ForecastCall ==
    /\ pc = "forecast"
    /\ pc' = "done"
    /\ forecast' = [forecast EXCEPT
                       !.report = DaySections(forecast.reply, forecast.days)]
    /\ UNCHANGED <<Fields, input, cur, pending, fetched, output, cause>>

ForecastNext == ForecastCall

SpecForecast == ForecastInit /\ [][ForecastNext]_vars

-----------------------------------------------------------------------------
(* Vocabulary of the properties *)

HandWritten == variant \in {"minimal", "simple"}

\* The input line that caused output line k, and the envelope written for it.
Req(k) == input[output[k].src]
Env(k) == output[k].env

Written == 1..Len(output)

\* Line n has been handled to the end: the loop went on to read again.
Completed(n) ==
    \/ n < Len(input)
    \/ n = Len(input) /\ (pc = "read" \/ (pc = "done" /\ cause = "eof"))

\* The output lines caused by input line n.
LinesFor(n) == {k \in Written : output[k].src = n}

IsObject(line) == line.kind = "object"
ParsesAsJson(line) == line.kind \in {"object", "deep"} \cup NonObjectKinds
CarriesId(line) == IsObject(line) /\ line.id \notin {Absent, Null}

-----------------------------------------------------------------------------
(* C1 *)

\* C1: in the minimal and the simple server no output line is written for a
\* message that parses as a JSON object and has no id member, whatever its
\* method.
C1_NoOutputWithoutId ==
    HandWritten =>
        \A k \in Written : ~(IsObject(Req(k)) /\ Req(k).id = Absent)

(* C2 *)

\* C2: the id of every response equals the id of the message that caused it;
\* an id that was not in the message is written only for a line that failed
\* to parse as JSON, and is null then.
C2_IdCarriedThrough ==
    HandWritten =>
        \A k \in Written :
            (IsObject(Req(k)) \/ ~ParsesAsJson(Req(k))) =>
                \/ IsObject(Req(k)) /\ Req(k).id # Absent /\ Env(k).id = Req(k).id
                \/ ~ParsesAsJson(Req(k)) /\ Env(k).id = Null

(* C3 *)

\* C3: MCPWeatherServer.handle_message never raises: on every line it
\* returns a serialized envelope or None.
C3_HandleMessageNeverRaises ==
    (variant = "minimal" /\ pc = "handle") =>
        \A up \in Upstream :
            MinimalHandleMessage(cur, server_info, apiKey, up).exc = ""

(* C4 *)

\* C4: no single input line ends the session: the loop stops only at
\* end-of-stream, at an interrupt or when the output stream fails, and every
\* request with an id that was handled to the end has exactly one output
\* line, a well-formed envelope.
C4_OnlyStreamEndsSession ==
    HandWritten =>
        /\ pc = "done" => cause \in {"eof", "interrupt", "pipe"}
        /\ \A n \in 1..Len(input) :
              (Completed(n) /\ CarriesId(input[n])
               /\ input[n].method # "notifications/initialized")
                  => /\ Cardinality(LinesFor(n)) = 1
                     /\ \A k \in LinesFor(n) : IsSuccess(Env(k)) # IsError(Env(k))

(* C5 *)

\* C5 as claimed: every line that is not valid JSON yields exactly one
\* output line, the envelope with id null, code -32700 and the message
\* "Parse error", in the minimal server and in the simple server's loop.
C5_ParseErrorExact ==
    HandWritten =>
        \A n \in 1..Len(input) :
            input[n].kind = "text" =>
                /\ \A k \in LinesFor(n) : Env(k) = Error(Null, -32700, "Parse error")
                /\ Completed(n) => Cardinality(LinesFor(n)) = 1

\* C5 as amended: the message is "Parse error" in the minimal server, and
\* "Parse error: " followed by the decoder's detail in the simple server.
C5_ParseErrorPerVariant ==
    HandWritten =>
        \A n \in 1..Len(input) :
            input[n].kind = "text" =>
                /\ \A k \in LinesFor(n) :
                      Env(k) = Error(Null, -32700,
                                     IF variant = "minimal" THEN "Parse error"
                                     ELSE "Parse error: " \o JsonDecodeDetail)
                /\ Completed(n) => Cardinality(LinesFor(n)) = 1

C5_Witness ==
    /\ variant = "simple"
    /\ Len(input) = 2
    /\ input[2].kind = "text"
    /\ Completed(2)
    /\ LinesFor(2) # {}

(* C6 *)

\* C6: a tools/call for a known tool whose collaborator call failed is
\* answered with an error envelope of code -32603, never with a success
\* envelope.
C6_FailedFetchIsError ==
    HandWritten =>
        \A k \in Written :
            (Len(output[k].fetched) > 0 /\ FetchFailed(output[k].fetched[1])) =>
                /\ IsError(Env(k))
                /\ Env(k).error.code = -32603

(* C7 *)

\* C7: in the transport loops, line n is handled to the end, its response
\* written, before line n+1 is read; the output lines are in the order of
\* the lines that caused them, and a response that carries the id of a
\* request carries the id of the request that caused it.  In every variant
\* a line causes at most one output line.  (The SDK server has no transport
\* loop of its own: its call_tool coroutines may interleave.)
C7_Sequential ==
    /\ \A j, k \in Written : j # k => output[j].src # output[k].src
    /\ \A k \in Written : output[k].src \in 1..Len(input)
    /\ HandWritten =>
          /\ \A j, k \in Written : j < k => output[j].src < output[k].src
          /\ pc \in {"handle", "write", "except"} =>
                /\ cur = input[Len(input)]
                /\ \A k \in Written : output[k].src < Len(input)
          /\ pc = "read" => (pending = <<>> /\ cur = NoLine)
          /\ pc \in {"write", "except"} => Len(pending) = 1
          /\ \A k \in Written :
                (CarriesId(Req(k)) /\ Env(k).id # Null) => Env(k).id = Req(k).id

C7_Witness ==
    /\ HandWritten
    /\ Len(output) = 2
    /\ CarriesId(Req(1)) /\ CarriesId(Req(2))
    /\ Env(1).id = "0" /\ Env(2).id = "7"

(* C8 *)

Names(registry) == {registry[i].name : i \in 1..Len(registry)}

\* The tool names the variant lists.
RegisteredNames ==
    CASE variant = "minimal" -> Names(MinimalTools)
      [] variant = "simple" -> Names(tools)
      [] OTHER -> Names(SdkTools)

\* C8: in every variant a tools/call whose params.name is missing or not a
\* registered tool is answered with the error -32601 "Unknown tool: <name>",
\* and the collaborator is not invoked.
C8_UnknownToolRejected ==
    \A k \in Written :
        (/\ IsObject(Req(k))
         /\ Req(k).method = "tools/call"
         /\ Req(k).params # NonMapping
         /\ Req(k).name \notin RegisteredNames) =>
            /\ Env(k) = Error(Env(k).id, -32601, "Unknown tool: " \o PyStr(Req(k).name))
            /\ output[k].fetched = <<>>

(* C9 *)

\* C9: a request with an id whose method is none of the four known ones, or
\* is missing, gets exactly one output line: the error -32601
\* "Unknown method: <method>" with the request's own id.
C9_UnknownMethod ==
    HandWritten =>
        \A n \in 1..Len(input) :
            (CarriesId(input[n]) /\ input[n].method \notin Methods) =>
                /\ \A k \in LinesFor(n) :
                      Env(k) = Error(input[n].id, -32601,
                                     "Unknown method: " \o PyStr(input[n].method))
                /\ Completed(n) => Cardinality(LinesFor(n)) = 1

C9_Witness ==
    /\ variant = "simple"
    /\ Len(output) = 2
    /\ Req(1).method = Absent /\ Req(1).id = "\"a\""
    /\ Req(2).method = UnknownMethod /\ Req(2).id = "0"

(* C10 *)

\* The registry as it is when main enters its loop.
StartupTools == IF variant = "minimal" THEN MinimalTools ELSE SimpleTools

\* C10: after any sequence of messages every tools/list is answered with a
\* success envelope whose result.tools is the startup tool set, in its
\* order, with get_weather in it and each entry carrying name, description
\* and inputSchema; handling messages leaves the registry as it was.
C10_ToolsListStable ==
    HandWritten =>
        /\ variant = "simple" => tools = SimpleTools
        /\ \A n \in 1..Len(input) :
              (IsObject(input[n]) /\ input[n].method = "tools/list") =>
                  /\ Completed(n) => Cardinality(LinesFor(n)) = 1
                  /\ \A k \in LinesFor(n) :
                        /\ IsSuccess(Env(k))
                        /\ DOMAIN Env(k).result = {"tools"}
                        /\ Env(k).result.tools = StartupTools
                        /\ "get_weather" \in Names(Env(k).result.tools)
                        /\ \A i \in 1..Len(Env(k).result.tools) :
                              DOMAIN Env(k).result.tools[i] =
                                  {"name", "description", "inputSchema"}

C10_Witness ==
    /\ HandWritten
    /\ Len(output) = 2
    /\ Req(1).method = "tools/call"
    /\ Req(2).method = "tools/list"
    /\ IsSuccess(Env(2))

(* C11 *)

\* C11: in both hand-written loops a line that is empty after trimming is
\* skipped: no output line, in particular no -32700, is written for it.
C11_BlankLineSkipped ==
    HandWritten =>
        \A k \in Written : Req(k).kind # "blank"

(* C12 *)

\* The constant name and version each server reports.
ServerInfoOf(v) ==
    IF v = "minimal" THEN [name |-> "weather-server", version |-> "1.0.0"]
    ELSE [name |-> "simple-weather-server", version |-> "1.0.0"]

\* C12: every initialize request with an id gets exactly one output line, a
\* success envelope with the request's id whose result has protocolVersion
\* "2024-11-05", capabilities.tools the empty object and the server's
\* constant name and version, whatever its params and wherever in the
\* session it comes.
C12_InitializeResult ==
    HandWritten =>
        \A n \in 1..Len(input) :
            (CarriesId(input[n]) /\ input[n].method = "initialize") =>
                /\ Completed(n) => Cardinality(LinesFor(n)) = 1
                /\ \A k \in LinesFor(n) :
                      Env(k) = [jsonrpc |-> "2.0", id |-> input[n].id,
                                result |-> [protocolVersion |-> "2024-11-05",
                                            capabilities |-> [tools |-> <<>>],
                                            serverInfo |-> ServerInfoOf(variant)]]

\* Two initialize requests in one session, the second with params that are
\* not a mapping, both answered.
C12_Witness ==
    /\ HandWritten
    /\ Len(output) = 2
    /\ Req(1).method = "initialize" /\ Req(1).id = "0"
    /\ Req(2).method = "initialize" /\ Req(2).params = NonMapping
    /\ Env(1).result = Env(2).result

(* C13 *)

\* What a server that has handled nothing yet writes for a line when the
\* upstream service does up: <<>> or <<envelope>>.
FreshResponse(line, up) ==
    LET r == IF variant = "minimal"
             THEN MinimalHandleMessage(line, MinimalServerInfo, apiKey, up)
             ELSE SimpleHandleLine(line, SimpleName, SimpleTools, apiKey, up)
    IN  IF r.exc # ""
        THEN <<Error(Null, -32603, "Server error: " \o r.exc)>>
        ELSE r.resp

\* What the upstream service did for the collaborator calls f ("ok" stands
\* for any when it was not asked).
UpOf(f) ==
    IF Len(f) = 1 /\ f[1].outcome \in Upstream THEN f[1].outcome ELSE "ok"

\* The number of the output line that has just been written: the loop has
\* written the response to the last line read and has not read on.  Every
\* output line is the line just written in one state, and is left as it is
\* from then on.
Last == Len(output)
JustWritten ==
    /\ Last > 0
    /\ output[Last].src = Len(input)
    /\ pc = "read" \/ (pc = "done" /\ cause = "exception")
AsFresh(k) == <<Env(k)>> = FreshResponse(Req(k), UpOf(output[k].fetched))

\* The tool names tools/call dispatches in each hand-written server.
DispatchedNames ==
    IF variant = "minimal" THEN {"get_weather", "get_weather_forecast"}
    ELSE {"get_weather"}

InitializeBefore(n) == \E i \in 1..(n - 1) : input[i].method = "initialize"

\* C13: a tools/list or tools/call is answered the same with or without an
\* initialize before it: the line written is the one a server that has
\* handled nothing writes, tools/list always succeeds, and a tools/call is
\* refused only for what the request itself holds (an unknown tool name,
\* params or arguments that are not a mapping), never for its phase.
C13_LenientOrdering ==
    HandWritten =>
        \A k \in Written :
            (IsObject(Req(k)) /\ Req(k).method \in {"tools/list", "tools/call"}) =>
                /\ (k = Last /\ JustWritten) => AsFresh(k)
                /\ Req(k).method = "tools/list" => IsSuccess(Env(k))
                /\ IsError(Env(k)) =>
                      \/ /\ Env(k).error.code = -32601
                         /\ Req(k).name \notin DispatchedNames
                      \/ /\ Env(k).error.code = -32603
                         /\ NonMapping \in {Req(k).params, Req(k).arguments}

\* A tools/call and then a tools/list, both answered with a result, in a
\* session without any initialize.
C13_Witness ==
    /\ HandWritten
    /\ Len(output) = 2
    /\ ~InitializeBefore(3)
    /\ Req(1).method = "tools/call" /\ IsSuccess(Env(1))
    /\ Req(2).method = "tools/list" /\ IsSuccess(Env(2))

(* C14 *)

\* The collaborator call made for output line k, when there was one and its
\* request succeeded.
Succeeded(k) ==
    /\ Len(output[k].fetched) = 1
    /\ output[k].fetched[1].outcome = "ok"

\* The report the collaborator builds from a good reply.
ReportOf(c) ==
    IF variant = "simple" THEN SimpleGetWeather(TRUE, c.args.location, "ok")
    ELSE IF c.tool = "get_weather"
    THEN MinimalGetWeather(TRUE, c.args.location, "ok")
    ELSE MinimalGetWeatherForecast(TRUE, c.args.location, c.args.days, "ok")

\* C14: when the collaborator succeeds on a tools/call for a known tool, the
\* line written is a success envelope whose result.content is a list of
\* exactly one item {type: "text", text: s}, s being the string the
\* collaborator returned, unchanged; it has the id of a request that
\* carries one.
C14_SuccessWrapsText ==
    HandWritten =>
        \A k \in Written :
            (Req(k).method = "tools/call" /\ Succeeded(k)) =>
                LET c == output[k].fetched[1]
                IN  /\ Req(k).name \in DispatchedNames
                    /\ c.returned = ReportOf(c)
                    /\ DOMAIN Env(k) = {"jsonrpc", "id", "result"}
                    /\ Env(k).jsonrpc = "2.0"
                    /\ Env(k).result =
                          [content |-> <<[type |-> "text", text |-> c.returned]>>]
                    /\ CarriesId(Req(k)) => Env(k).id = Req(k).id

\* The minimal server has written the forecast report and then the current
\* report, for two requests with id 7.
C14_Witness ==
    /\ variant = "minimal"
    /\ Len(output) = 2
    /\ Succeeded(1) /\ Succeeded(2)
    /\ Req(1).id = "7" /\ Req(1).name = "get_weather_forecast"
    /\ Env(1).result.content[1].text = "5-Day Weather Forecast for London: 5 days"
    /\ Req(2).id = "7" /\ Req(2).name = "get_weather"
    /\ Env(2).result.content[1].text = "Weather Report for London"

(* C15 *)

IsInitialized(line) == line.method = "notifications/initialized"

\* C15: a message with method notifications/initialized yields no output
\* line, also when it carries an id and whatever its params: the engine has
\* no response for it and the loop goes back to reading.
C15_InitializedIsSilent ==
    HandWritten =>
        /\ \A n \in 1..Len(input) : IsInitialized(input[n]) => LinesFor(n) = {}
        /\ IsInitialized(cur) => (pc = "handle" /\ pending = <<>>)

\* Two such messages with id 7, the second with params that are not a
\* mapping, have been handled, and nothing has been written.
C15_Witness ==
    /\ HandWritten
    /\ Len(input) = 2
    /\ input[1] = Obj("7", "notifications/initialized", Absent)
    /\ input[2] = Obj("7", "notifications/initialized", NonMapping)
    /\ Completed(2)
    /\ output = <<>>

(* C16 *)

NoDuplicateName(registry) ==
    \A i, j \in 1..Len(registry) : registry[i].name = registry[j].name => i = j

\* C16: tool names are unique within the registry, enforced at registration:
\* after any sequence of add_tool calls no two descriptors in tools have the
\* same name, and no tools/list result lists a name twice.
C16_NamesUnique ==
    variant = "simple" =>
        /\ NoDuplicateName(tools)
        /\ \A k \in Written :
              (Req(k).method = "tools/list" /\ IsSuccess(Env(k))) =>
                  NoDuplicateName(Env(k).result.tools)

(* C17 *)

\* C17: the engine keeps no cross-message state: the server's fields stay
\* what the constructor and the setup made them, every line written is the
\* response of a server that has handled nothing before, and two equal
\* messages with the same collaborator outcome get the same response.
C17_NoCrossMessageState ==
    HandWritten =>
        /\ server_info = (IF variant = "minimal" THEN MinimalServerInfo ELSE NoInfo)
        /\ name = (IF variant = "simple" THEN SimpleName ELSE "")
        /\ tools = (IF variant = "simple" THEN SimpleTools ELSE <<>>)
        /\ JustWritten => AsFresh(Last)
        /\ \A j, k \in Written :
              (Req(j) = Req(k) /\ output[j].fetched = output[k].fetched) =>
                  Env(j) = Env(k)

\* The simple server has answered the same tools/call twice, the
\* collaborator succeeding both times.
C17_Witness ==
    /\ variant = "simple"
    /\ Len(output) = 2
    /\ Req(1) = Call("7", "tools/call", "get_weather", Mapping, "London")
    /\ Req(2) = Req(1)
    /\ output[1].src # output[2].src
    /\ Succeeded(1) /\ Succeeded(2)
    /\ Env(1) = Env(2)

(* C18 *)

\* An exception leaves the engine for this line: handle_message in the
\* minimal server, handle_request in the simple server (where json.loads is
\* called by main, not by the engine).
EngineRaises(line) ==
    IF variant = "minimal"
    THEN line.kind \in NonObjectKinds \cup {"deep"}
    ELSE \/ line.kind \in NonObjectKinds
         \/ /\ IsObject(line)
            /\ line.method = "tools/call"
            /\ line.params = NonMapping

\* The lines written for line n: at most one, an error envelope with id null
\* and code -32603.
OneInternalError(n) ==
    /\ Cardinality(LinesFor(n)) <= 1
    /\ \A k \in LinesFor(n) :
          /\ IsError(Env(k))
          /\ Env(k).id = Null
          /\ Env(k).error.code = -32603

\* C18 as stated: when an exception escapes the engine, the loop writes
\* exactly one error envelope with id null and code -32603 and then exits,
\* reading no further line, in the minimal and in the simple server.
C18_ExitsAfterEngineException ==
    HandWritten =>
        \A n \in 1..Len(input) :
            EngineRaises(input[n]) =>
                /\ OneInternalError(n)
                /\ n = Len(input)
                /\ LinesFor(n) # {} => pc = "done"
                /\ (pc = "done" /\ cause = "exception") => LinesFor(n) # {}

\* C18, amended: the envelope is as stated in both servers; the minimal
\* server then leaves its loop and reads no further line, the simple server
\* goes back to reading and serves the lines that follow.
C18_EngineExceptionPerVariant ==
    HandWritten =>
        \A n \in 1..Len(input) :
            EngineRaises(input[n]) =>
                /\ OneInternalError(n)
                /\ variant = "minimal" =>
                      /\ n = Len(input)
                      /\ LinesFor(n) # {} => (pc = "done" /\ cause = "exception")
                      /\ (pc = "done" /\ cause = "exception") => LinesFor(n) # {}
                /\ variant = "simple" =>
                      /\ cause # "exception"
                      /\ Completed(n) => LinesFor(n) # {}
                      /\ (LinesFor(n) # {} /\ n = Len(input)) =>
                            \/ pc = "read"
                            \/ pc = "done" /\ cause \in {"eof", "interrupt"}

\* The simple server wrote the error line for a JSON array and then read and
\* answered a tools/list.
C18_Witness ==
    /\ variant = "simple"
    /\ Len(input) = 2
    /\ input[1] = Raw("array") /\ EngineRaises(input[1])
    /\ input[2] = Obj("7", "tools/list", Absent)
    /\ LinesFor(1) = {1} /\ LinesFor(2) = {2}
    /\ Env(1).error.code = -32603 /\ IsSuccess(Env(2))

(* C19 *)

\* At end-of-stream nothing is written: the output holds what the lines
\* read before it caused, at most one line each.
SilentEndOfStream ==
    (pc = "done" /\ cause = "eof") =>
        /\ \A k \in Written : output[k].src \in 1..Len(input)
        /\ \A n \in 1..Len(input) : Cardinality(LinesFor(n)) <= 1

\* C19: the loop of a hand-written server ends at end-of-stream, which
\* writes no line, and in no other way unless it is interrupted or its
\* output stream fails.
C19_OnlyEndOfStreamEnds ==
    HandWritten =>
        /\ SilentEndOfStream
        /\ (pc = "done" /\ cause \notin {"interrupt", "pipe"}) => cause = "eof"

(* C20 *)

\* The same request with its params member the empty mapping.
WithEmptyParams(line) == [line EXCEPT !.params = Mapping]

\* C20: the engine does not validate the arguments of a tools/call and
\* rejects nothing itself.  A call of a known tool whose arguments are absent
\* or a mapping is passed to the collaborator once, with location defaulting
\* to "" and days to 5 and a days outside 1..5 passed as it is, and what the
\* collaborator returns is the result.  A request without a params member is
\* answered like the same request with params {}: by a server that has
\* handled nothing (compared for the first line of a run), and in one run.
C20_NoArgumentValidation ==
    HandWritten =>
        /\ \A k \in Written :
              (Req(k).method = "tools/call" /\ Req(k).name \in DispatchedNames
               /\ Req(k).arguments # NonMapping) =>
                  /\ Len(output[k].fetched) = 1
                  /\ output[k].fetched[1].tool = Req(k).name
                  /\ output[k].fetched[1].args.location =
                        (IF Req(k).location = Absent THEN "" ELSE Req(k).location)
                  /\ Req(k).name = "get_weather_forecast" =>
                        output[k].fetched[1].args.days =
                            (IF Req(k).days = <<>> THEN 5 ELSE Req(k).days[1])
                  /\ IsSuccess(Env(k))
                  /\ Env(k).result.content[1].text = output[k].fetched[1].returned
        /\ (pc = "handle" /\ Len(input) = 1 /\ IsObject(cur) /\ cur.params = Absent) =>
              \A up \in Upstream :
                  FreshResponse(cur, up) = FreshResponse(WithEmptyParams(cur), up)
        /\ \A j, k \in Written :
              (Req(j).params = Absent /\ Req(k) = WithEmptyParams(Req(j))) =>
                  Env(j) = Env(k)

\* The minimal server has passed days = 9 to the collaborator, and then a
\* call without arguments as location "" and days 5.
C20_Witness ==
    /\ variant = "minimal"
    /\ Len(output) = 2
    /\ Req(1) = Forecast("7", "London", 9)
    /\ output[1].fetched[1].args = [location |-> "London", days |-> 9]
    /\ Req(2) = Call("7", "tools/call", "get_weather_forecast", Absent, Absent)
    /\ output[2].fetched[1].args = [location |-> "", days |-> 5]
    /\ IsSuccess(Env(1)) /\ IsSuccess(Env(2))

(* C21 *)

\* The line is a tools/call that names a tool the server dispatches.
NamesKnownTool(line) ==
    /\ IsObject(line)
    /\ line.method = "tools/call"
    /\ line.name \in DispatchedNames

\* The number of collaborator calls made for the line being handled and for
\* every line written is n(line).
InvocationsAre(n(_)) ==
    /\ \A k \in Written : Len(output[k].fetched) = n(Req(k))
    /\ pc = "write" => Len(fetched) = n(cur)
    /\ pc # "write" => fetched = <<>>

OncePerKnownTool(line) == IF NamesKnownTool(line) THEN 1 ELSE 0

OncePerCallWithArguments(line) ==
    IF NamesKnownTool(line) /\ line.arguments # NonMapping THEN 1 ELSE 0

\* C21 as stated: every tools/call naming a known tool invokes the
\* collaborator exactly once, and no other message invokes it.
C21_OncePerKnownTool ==
    HandWritten => InvocationsAre(OncePerKnownTool)

\* C21, amended: a tools/call naming a known tool invokes the collaborator
\* exactly once, also when the invocation fails, when its arguments are
\* absent or a mapping, and not at all when they are not a mapping; no other
\* message invokes it, and nothing is invoked twice.
C21_OncePerCallWithArguments ==
    HandWritten => InvocationsAre(OncePerCallWithArguments)

\* A call whose one invocation failed in the network has been answered, and
\* then a call with arguments that are not a mapping, without an invocation.
C21_Witness ==
    /\ HandWritten
    /\ Len(output) = 2
    /\ NamesKnownTool(Req(1))
    /\ Len(output[1].fetched) = 1 /\ output[1].fetched[1].outcome = "network"
    /\ NamesKnownTool(Req(2)) /\ Req(2).arguments = NonMapping
    /\ output[2].fetched = <<>>

(* C22 *)

\* C22: the names tools/list returns are the names tools/call dispatches: a
\* call that names a listed tool is never answered with -32601, and a call
\* that names any other tool is answered with -32601; for the simple server
\* with every registry add_tool can build.
C22_ListedIsDispatched ==
    \A k \in Written :
        (/\ IsObject(Req(k))
         /\ Req(k).method = "tools/call"
         /\ Req(k).params = Mapping
         /\ Req(k).arguments # NonMapping) =>
            IF Req(k).name \in RegisteredNames
            THEN ~(IsError(Env(k)) /\ Env(k).error.code = -32601)
            ELSE IsError(Env(k)) /\ Env(k).error.code = -32601

(* C23 *)

\* The line names no method the servers know, or calls a tool the server does
\* not dispatch.
UnknownMethodOrTool(line) ==
    /\ IsObject(line)
    /\ \/ line.method \notin Methods
       \/ line.method = "tools/call" /\ line.name \notin DispatchedNames

\* C23: every line the hand-written servers write is a well-formed envelope:
\* jsonrpc "2.0", an id member and exactly one of result and error; an error
\* has one of the codes -32700, -32601, -32603, with -32700 only for a line
\* that is not valid JSON and -32601 only for an unknown method or an unknown
\* tool name.
C23_WellFormedEnvelope ==
    HandWritten =>
        \A k \in Written :
            /\ DOMAIN Env(k) \in {{"jsonrpc", "id", "result"},
                                  {"jsonrpc", "id", "error"}}
            /\ Env(k).jsonrpc = "2.0"
            /\ IsError(Env(k)) =>
                  /\ DOMAIN Env(k).error = {"code", "message"}
                  /\ Env(k).error.code \in {-32700, -32601, -32603}
                  /\ Env(k).error.code = -32700 => ~ParsesAsJson(Req(k))
                  /\ Env(k).error.code = -32601 => UnknownMethodOrTool(Req(k))

\* A parse error and then an unknown-tool error have been written.
C23_Witness ==
    /\ HandWritten
    /\ Len(output) = 2
    /\ IsError(Env(1)) /\ Env(1).error.code = -32700
    /\ IsError(Env(2)) /\ Env(2).error.code = -32601
    /\ Req(2).method = "tools/call"

(* C24 *)

\* The sequence s holds no element twice.
NoRepeat(s) == \A i, j \in 1..Len(s) : s[i] = s[j] => i = j

\* C24: get_weather_forecast never reports more day sections than requested:
\* for every integer days and every upstream list the report holds at most
\* max(0, min(days, 5)) sections, the first dates of the list in order of
\* first appearance, one section per date.
C24_AtMostRequested ==
    pc = "done" =>
        LET requested == IF forecast.days < 0 THEN 0
                         ELSE IF forecast.days > 5 THEN 5
                         ELSE forecast.days
            dates == DailyForecasts(forecast.reply)
        IN  /\ Len(forecast.report) <= requested
            /\ Len(forecast.report) <= Len(dates)
            /\ forecast.report = SubSeq(dates, 1, Len(forecast.report))
            /\ NoRepeat(forecast.report)

====
